---- MODULE Spec2Model ----
(***************************************************************************)
(* Model of the midas goalie decision core (src/src/main.rs, the variant   *)
(* src/src/backup.rs and src/src/robot_trajectory.rs).                     *)
(*                                                                         *)
(* f64 values are modelled as exact rationals extended with the IEEE       *)
(* non-finite values +inf, -inf and NaN: rounding is abstracted away, the  *)
(* behaviour of division by zero, inf - inf, 0 * inf and of comparisons    *)
(* with NaN is kept.  The result of Vector2::norm() is kept as the         *)
(* rational under the square root, so no irrational value is approximated. *)
(***************************************************************************)
EXTENDS Integers, Sequences, FiniteSets, TLC

\* ------------------------------------------------------------------------
\* Bound of the model: number of iterations of main's loop that are explored
MaxTicks == 2

\* ------------------------------------------------------------------------
\* Unbounded naturals (little-endian digits), used only to compare products
\* that do not fit TLC's 32-bit integers
Base == 100 * 100

RECURSIVE BigOf(_)
BigOf(n) ==
    IF n = 0 THEN <<>> ELSE <<n % Base>> \o BigOf(n \div Base)

RECURSIVE BigAdd(_, _, _)
BigAdd(a, b, c) ==
    IF a = <<>> /\ b = <<>>
    THEN IF c = 0 THEN <<>> ELSE <<c>>
    ELSE LET x == (IF a = <<>> THEN 0 ELSE Head(a))
                  + (IF b = <<>> THEN 0 ELSE Head(b)) + c
         IN  <<x % Base>> \o BigAdd(IF a = <<>> THEN <<>> ELSE Tail(a),
                                    IF b = <<>> THEN <<>> ELSE Tail(b),
                                    x \div Base)

RECURSIVE BigScale(_, _, _)
BigScale(a, m, c) ==
    IF a = <<>>
    THEN IF c = 0 THEN <<>> ELSE <<c>>
    ELSE LET x == Head(a) * m + c
         IN  <<x % Base>> \o BigScale(Tail(a), m, x \div Base)

RECURSIVE BigTrim(_)
BigTrim(a) ==
    IF a = <<>> THEN <<>>
    ELSE IF a[Len(a)] = 0 THEN BigTrim(SubSeq(a, 1, Len(a) - 1)) ELSE a

RECURSIVE BigMul(_, _)
BigMul(a, b) ==
    IF b = <<>> \/ a = <<>> THEN <<>>
    ELSE LET rest == BigMul(a, Tail(b))
         IN  BigTrim(BigAdd(BigScale(a, Head(b), 0),
                            IF rest = <<>> THEN <<>> ELSE <<0>> \o rest, 0))

RECURSIVE BigCmpLE(_, _, _)
BigCmpLE(a, b, i) ==
    IF i = 0 THEN TRUE
    ELSE IF a[i] # b[i] THEN a[i] < b[i] ELSE BigCmpLE(a, b, i - 1)

BigLE(a, b) ==
    IF Len(a) # Len(b) THEN Len(a) < Len(b) ELSE BigCmpLE(a, b, Len(a))

\* x * y <= u * v for naturals x, y, u, v
ProdLE(x, y, u, v) == BigLE(BigMul(BigOf(x), BigOf(y)), BigMul(BigOf(u), BigOf(v)))

\* ------------------------------------------------------------------------
\* f64 scalars: [k |-> "fin", n, d] is n/d in lowest terms with d > 0,
\* [k |-> "inf", n |-> +1 or -1] is an infinity, [k |-> "nan"] is NaN
Abs(i) == IF i < 0 THEN -i ELSE i

Sgn(i) == IF i < 0 THEN -1 ELSE IF i > 0 THEN 1 ELSE 0

RECURSIVE GCD(_, _)
GCD(a, b) == IF b = 0 THEN a ELSE GCD(b, a % b)

R(n, d) ==
    LET s == IF d < 0 THEN -1 ELSE 1
        g == GCD(Abs(n), Abs(d))
    IN  [k |-> "fin", n |-> (s * n) \div g, d |-> Abs(d) \div g]

I(n) == [k |-> "fin", n |-> n, d |-> 1]

NaN == [k |-> "nan", n |-> 0, d |-> 1]

Inf(s) == [k |-> "inf", n |-> s, d |-> 1]

IsFinite(a) == a.k = "fin"

Neg(a) == [a EXCEPT !.n = -a.n]

Add(a, b) ==
    IF a.k = "nan" \/ b.k = "nan" THEN NaN
    ELSE IF a.k = "inf" /\ b.k = "inf" THEN (IF a.n = b.n THEN a ELSE NaN)
    ELSE IF a.k = "inf" THEN a
    ELSE IF b.k = "inf" THEN b
    ELSE LET g == GCD(a.d, b.d)
         IN  R(a.n * (b.d \div g) + b.n * (a.d \div g), (a.d \div g) * b.d)

Sub(a, b) == Add(a, Neg(b))

Mul(a, b) ==
    IF a.k = "nan" \/ b.k = "nan" THEN NaN
    ELSE IF a.k = "inf" \/ b.k = "inf"
         THEN (IF a.n = 0 \/ b.n = 0 THEN NaN ELSE Inf(Sgn(a.n) * Sgn(b.n)))
    ELSE LET g1 == GCD(Abs(a.n), b.d)
             g2 == GCD(Abs(b.n), a.d)
         IN  [k |-> "fin", n |-> (a.n \div g1) * (b.n \div g2),
                           d |-> (a.d \div g2) * (b.d \div g1)]

\* IEEE division; a zero divisor is +0.0 (the only zero divisors are a
\* Duration converted to seconds and a norm)
Div(a, b) ==
    IF a.k = "nan" \/ b.k = "nan" THEN NaN
    ELSE IF a.k = "inf" THEN (IF b.k = "inf" THEN NaN
                              ELSE Inf(a.n * (IF b.n < 0 THEN -1 ELSE 1)))
    ELSE IF b.k = "inf" THEN I(0)
    ELSE IF b.n = 0 THEN (IF a.n = 0 THEN NaN ELSE Inf(Sgn(a.n)))
    ELSE Mul(a, R(b.d, b.n))

\* a <= b on f64: false as soon as one side is NaN
LE(a, b) ==
    IF a.k = "nan" \/ b.k = "nan" THEN FALSE
    ELSE IF a.k = "inf" THEN (a.n < 0 \/ (b.k = "inf" /\ b.n > 0))
    ELSE IF b.k = "inf" THEN b.n > 0
    ELSE IF a.n <= 0 /\ b.n >= 0 THEN TRUE
    ELSE IF a.n >= 0 /\ b.n <= 0 THEN FALSE
    ELSE IF a.n > 0 THEN ProdLE(a.n, b.d, b.n, a.d)
    ELSE ProdLE(-b.n, a.d, -a.n, b.d)

LT(a, b) ==
    IF a.k = "nan" \/ b.k = "nan" THEN FALSE ELSE ~LE(b, a)

FAbs(a) == [a EXCEPT !.n = Abs(a.n)]

\* f64::powi
RECURSIVE Powi(_, _)
Powi(a, e) == IF e = 0 THEN I(1) ELSE Mul(a, Powi(a, e - 1))

\* ------------------------------------------------------------------------
\* nalgebra::Vector2<f64>
Vec(x, y) == [x |-> x, y |-> y]

VAdd(u, v) == Vec(Add(u.x, v.x), Add(u.y, v.y))

VSub(u, v) == Vec(Sub(u.x, v.x), Sub(u.y, v.y))

\* scalar * vector and vector * scalar
VScale(s, v) == Vec(Mul(s, v.x), Mul(s, v.y))

\* vector / scalar
VDiv(v, s) == Vec(Div(v.x, s), Div(v.y, s))

VFinite(v) == IsFinite(v.x) /\ IsFinite(v.y)

\* ------------------------------------------------------------------------
\* Non-negative f64 values that come out of Vector2::norm(): a finite value
\* is sqrt(n/d) * EpsInv^e, kept by its square so that it stays exact
EpsInv == 1000000

Root(s, e) == [k |-> s.k, n |-> s.n, d |-> s.d, e |-> e]

\* the f64 x >= 0 as such a value
RootOf(x) == Root(Mul(x, x), 0)

\* the literal 1e-6
EPSILON == Root(I(1), -1)

RootSq(a) == [k |-> a.k, n |-> a.n, d |-> a.d]

\* Vector2::norm(): sqrt(x*x + y*y)
Norm(v) == Root(Add(Mul(v.x, v.x), Mul(v.y, v.y)), 0)

RootMul(a, b) ==
    LET s == Mul(RootSq(a), RootSq(b))
    IN  Root(s, IF s.k = "fin" THEN a.e + b.e ELSE 0)

RootDiv(a, b) ==
    LET s == Div(RootSq(a), RootSq(b))
    IN  Root(s, IF s.k = "fin" THEN a.e - b.e ELSE 0)

RECURSIVE BigMulEps(_, _)
BigMulEps(x, j) ==
    IF j = 0 THEN x ELSE BigMulEps(BigMul(x, BigOf(EpsInv)), j - 1)

\* a <= b on f64
RootLE(a, b) ==
    IF a.k = "nan" \/ b.k = "nan" THEN FALSE
    ELSE IF b.k = "inf" THEN TRUE
    ELSE IF a.k = "inf" THEN FALSE
    ELSE LET m == IF a.e < b.e THEN a.e ELSE b.e
         IN  BigLE(BigMulEps(BigMul(BigOf(a.n), BigOf(b.d)), 2 * (a.e - m)),
                   BigMulEps(BigMul(BigOf(b.n), BigOf(a.d)), 2 * (b.e - m)))

\* a < b on f64
RootLT(a, b) ==
    IF a.k = "nan" \/ b.k = "nan" THEN FALSE ELSE ~RootLE(b, a)

\* f64::max: a NaN operand is ignored
RootMax(a, b) ==
    IF a.k = "nan" THEN b
    ELSE IF b.k = "nan" THEN a
    ELSE IF RootLE(a, b) THEN b ELSE a

RootFinite(a) == a.k = "fin"

\* ------------------------------------------------------------------------
\* Constants of main.rs / backup.rs
INTERCEPT_THRESHOLD == R(6, 5)

ERROR_CORRECTION_FACTOR == R(1, 10)

Origin == Vec(I(0), I(0))

\* main: the scenario's fixed points
InitialGoaliePosition == Vec(I(0), I(0))

InitialBallPosition == Vec(I(0), I(6))

teammate_position == Vec(I(-5), I(10))

goal_position == Vec(I(0), I(-20))

\* ------------------------------------------------------------------------
\* struct Ball
Ball_new(position) ==
    [position |-> position, velocity |-> Origin,
     acceleration |-> Origin, jerk |-> Origin]

\* Ball_update with the velocity stored before the acceleration is computed
Ball_update_stale(self, new_position, delta_time) ==
    LET new_velocity == VDiv(VSub(new_position, self.position), delta_time)
        new_acceleration == VDiv(VSub(new_velocity, new_velocity), delta_time)
        new_jerk == VDiv(VSub(new_acceleration, self.acceleration), delta_time)
    IN  [position |-> new_position, velocity |-> new_velocity,
         acceleration |-> new_acceleration, jerk |-> new_jerk]

Ball_update(self, new_position, delta_time) ==
    LET new_velocity == VDiv(VSub(new_position, self.position), delta_time)
        new_acceleration == VDiv(VSub(new_velocity, self.velocity), delta_time)
        new_jerk == VDiv(VSub(new_acceleration, self.acceleration), delta_time)
    IN  [position |-> new_position, velocity |-> new_velocity,
         acceleration |-> new_acceleration, jerk |-> new_jerk]

Ball_predict_position(self, delta_time) ==
    LET predicted_position ==
            VAdd(VAdd(VAdd(self.position,
                           VScale(delta_time, self.velocity)),
                      VScale(Powi(delta_time, 2), VScale(R(1, 2), self.acceleration))),
                 VScale(Powi(delta_time, 3), VScale(Div(I(1), I(6)), self.jerk)))
    IN  VAdd(predicted_position,
             VScale(ERROR_CORRECTION_FACTOR, VSub(predicted_position, self.position)))

BallFinite(b) ==
    /\ VFinite(b.position) /\ VFinite(b.velocity)
    /\ VFinite(b.acceleration) /\ VFinite(b.jerk)

\* ------------------------------------------------------------------------
\* struct Enemy
Enemy_new(position, velocity) == [position |-> position, velocity |-> velocity]

\* Enemy_time_to_reach without the floor on the speed
Enemy_time_to_reach_unclamped(self, target) ==
    LET distance == Norm(VSub(target, self.position))
        speed == Norm(self.velocity)
    IN  RootDiv(distance, speed)

Enemy_time_to_reach(self, target) ==
    LET distance == Norm(VSub(target, self.position))
        speed == RootMax(Norm(self.velocity), EPSILON)
    IN  RootDiv(distance, speed)

\* ------------------------------------------------------------------------
\* struct Goalie: its only field is position, a Goalie is modelled by it
Goalie_time_to_reach(position, target) ==
    LET distance == Norm(VSub(target, position))
        speed == RootOf(I(2))
    IN  RootDiv(distance, speed)

\* the point of the curve at parameter t (body of the loop of
\* bezier_path_blocked)
bezier_point(position, target, t) ==
    LET mid_point == VScale(R(1, 2), VAdd(position, target))
        one_minus_t == Sub(I(1), t)
    IN  VAdd(VAdd(VScale(Powi(one_minus_t, 2), position),
                  VScale(Mul(Mul(I(2), one_minus_t), t), mid_point)),
             VScale(Powi(t, 2), target))

\* the parameters (0..=10).map(|i| i as f64 / 10.0)
SampleIndex == 0 .. 10

Param(i) == Div(I(i), I(10))

\* bezier_path_blocked with <= 1.0 in place of < 1.0
bezier_path_blocked_inclusive(position, target, enemy) ==
    \E i \in SampleIndex :
        RootLE(Norm(VSub(bezier_point(position, target, Param(i)), enemy.position)),
               RootOf(I(1)))

bezier_path_blocked(position, target, enemy) ==
    \E i \in SampleIndex :
        RootLT(Norm(VSub(bezier_point(position, target, Param(i)), enemy.position)),
               RootOf(I(1)))

\* intercept moving the goalie onto the ball instead of the target
intercept_to_ball(position, ball, target, delta_time) == ball.position

\* intercept: the movement vector is only logged
intercept(position, ball, target, delta_time) == target

\* safe_mode that only logs
safe_mode_stay(position) == position

safe_mode(position) == Vec(I(0), I(0))

\* the test of decide_action with < in place of <=
can_intercept_strict(goalie_time, enemy_time) ==
    RootLT(goalie_time, RootMul(enemy_time, RootOf(INTERCEPT_THRESHOLD)))

\* the test of decide_action
can_intercept(goalie_time, enemy_time) ==
    RootLE(goalie_time, RootMul(enemy_time, RootOf(INTERCEPT_THRESHOLD)))

\* the two branches of the target choice exchanged
choose_target_swapped(blocked, teammate, goal) == IF blocked THEN goal ELSE teammate

\* the target chosen by decide_action when it intercepts
choose_target(blocked, teammate, goal) == IF blocked THEN teammate ELSE goal

\* decide_action of main.rs: the new position of the goalie, together with
\* the values it computed on the way
decide_action(position, ball, enemy, teammate, goal, delta_time) ==
    LET predicted_ball_position == Ball_predict_position(ball, delta_time)
        goalie_time == Goalie_time_to_reach(position, predicted_ball_position)
        enemy_time == Enemy_time_to_reach(enemy, predicted_ball_position)
        blocked == bezier_path_blocked(position, goal, enemy)
        target == choose_target(blocked, teammate, goal)
    IN  IF can_intercept(goalie_time, enemy_time)
        THEN [outcome |-> "Intercepting",
              position |-> intercept(position, ball, target, delta_time),
              predicted_ball_position |-> predicted_ball_position,
              goalie_time |-> goalie_time, enemy_time |-> enemy_time,
              blocked |-> blocked, target |-> target]
        ELSE [outcome |-> "SafeMode",
              position |-> safe_mode(position),
              predicted_ball_position |-> predicted_ball_position,
              goalie_time |-> goalie_time, enemy_time |-> enemy_time,
              blocked |-> FALSE, target |-> Origin]

\* decide_action of backup.rs: no clearance check, the goalie goes to the
\* forecast position
backup_intercept(position, ball, rendezvous) == rendezvous

backup_decide_action(position, ball, enemy, delta_time) ==
    LET predicted_ball_position == Ball_predict_position(ball, delta_time)
        goalie_time == Goalie_time_to_reach(position, predicted_ball_position)
        enemy_time == Enemy_time_to_reach(enemy, predicted_ball_position)
    IN  IF can_intercept(goalie_time, enemy_time)
        THEN [outcome |-> "Intercepting",
              position |-> backup_intercept(position, ball, predicted_ball_position),
              predicted_ball_position |-> predicted_ball_position,
              goalie_time |-> goalie_time, enemy_time |-> enemy_time,
              blocked |-> FALSE, target |-> predicted_ball_position]
        ELSE [outcome |-> "SafeMode",
              position |-> safe_mode(position),
              predicted_ball_position |-> predicted_ball_position,
              goalie_time |-> goalie_time, enemy_time |-> enemy_time,
              blocked |-> FALSE, target |-> Origin]

\* in_target_box that forgets the y bound
in_target_box_x_only(ball) == LE(FAbs(ball.position.x), I(10))

in_target_box(ball) ==
    /\ LE(FAbs(ball.position.x), I(10))
    /\ LE(FAbs(ball.position.y), I(20))

\* the else branch of main's loop: nothing is decided
no_action(position) ==
    [outcome |-> "Idle", position |-> position,
     predicted_ball_position |-> Origin,
     goalie_time |-> RootOf(I(0)), enemy_time |-> RootOf(I(0)),
     blocked |-> FALSE, target |-> Origin]

\* ------------------------------------------------------------------------
\* struct RobotTrajectory
\* control points with the second one measured from the start like the first
generate_bezier_control_points_same(start, end) ==
    LET x0 == start.x
        y0 == start.y
        x3 == end.x
        y3 == end.y
        x1 == Add(x0, Div(Sub(x3, x0), I(3)))
        x2 == Add(x0, Div(Sub(x3, x0), I(3)))
        y1 == Add(y0, Div(Sub(y3, y0), I(3)))
        y2 == Add(y0, Div(Sub(y3, y0), I(3)))
    IN  <<Vec(x0, y0), Vec(x1, y1), Vec(x2, y2), Vec(x3, y3)>>

generate_bezier_control_points(start, end) ==
    LET x0 == start.x
        y0 == start.y
        x3 == end.x
        y3 == end.y
        x1 == Add(x0, Div(Sub(x3, x0), I(3)))
        x2 == Sub(x3, Div(Sub(x3, x0), I(3)))
        y1 == Add(y0, Div(Sub(y3, y0), I(3)))
        y2 == Sub(y3, Div(Sub(y3, y0), I(3)))
    IN  <<Vec(x0, y0), Vec(x1, y1), Vec(x2, y2), Vec(x3, y3)>>

RobotTrajectory_new(start_pos, ball_pos, goal_pos) ==
    [start_pos |-> start_pos, ball_pos |-> ball_pos, goal_pos |-> goal_pos,
     control_points |-> generate_bezier_control_points(start_pos, ball_pos)]

compute_position(self, t) ==
    LET one_minus_t == Sub(I(1), t)
    IN  VAdd(VAdd(VAdd(VScale(Powi(one_minus_t, 3), self.control_points[1]),
                       VScale(Mul(Mul(I(3), Powi(one_minus_t, 2)), t),
                              self.control_points[2])),
                  VScale(Mul(Mul(I(3), one_minus_t), Powi(t, 2)),
                         self.control_points[3])),
             VScale(Powi(t, 3), self.control_points[4]))

compute_delta_vector(self, delta_t) ==
    VSub(compute_position(self, delta_t), compute_position(self, I(0)))

\* ------------------------------------------------------------------------
\* State
VARIABLES
    engine,    \* which program runs: "main" (main.rs) or "backup" (backup.rs)
    tick,      \* iterations of main's loop done so far
    ball,      \* main's ball
    goalie,    \* main's goalie (its position)
    last,      \* inputs and intermediate values of the last iteration
    path       \* one evaluation of the path functions (specification SpecPath)

vars == <<engine, tick, ball, goalie, last, path>>

\* what the external driver can supply in one iteration: the observed ball
\* position, the elapsed time and the opponent
Observed ==
    {Vec(I(0), I(6)), Vec(I(8), I(-2)), Vec(I(16), I(6)), Vec(I(0), I(22))}

DeltaTimes == {I(0), I(1), I(2)}

Enemies ==
    {Enemy_new(Vec(I(1), I(5)), Vec(R(1, 5), R(-1, 10))),
     Enemy_new(Vec(I(0), I(-10)), Vec(I(0), I(0))),
     Enemy_new(Vec(I(100), I(100)), Vec(R(1, 10), I(0))),
     Enemy_new(Vec(I(0), I(1)), Vec(I(0), I(2))),
     Enemy_new(Vec(I(2), I(2)), Vec(I(30), I(40)))}

NoLast ==
    [ticked |-> FALSE, new_position |-> InitialBallPosition,
     delta_time |-> I(0),
     enemy |-> Enemy_new(Origin, Origin),
     prev_goalie |-> InitialGoaliePosition,
     prev_ball |-> Ball_new(InitialBallPosition),
     prev_delta_time |-> I(0), prev2_position |-> InitialBallPosition,
     outcome |-> "Idle", predicted_ball_position |-> Origin,
     goalie_time |-> RootOf(I(0)), enemy_time |-> RootOf(I(0)),
     blocked |-> FALSE, target |-> Origin]

NoPath ==
    [phase |-> "none", start |-> Origin, end |-> Origin, obstacle |-> Origin,
     blocked |-> FALSE, quad |-> <<>>, cubic |-> <<>>, delta |-> Origin]

Init ==
    /\ engine \in {"main", "backup"}
    /\ tick = 0
    /\ ball = Ball_new(InitialBallPosition)
    /\ goalie = InitialGoaliePosition
    /\ last = NoLast
    /\ path = NoPath

\* what one iteration leaves behind for inspection
Record(r, new_position, delta_time, enemy) ==
    [ticked |-> TRUE, new_position |-> new_position,
     delta_time |-> delta_time, enemy |-> enemy,
     prev_goalie |-> goalie, prev_ball |-> ball,
     prev_delta_time |-> last.delta_time,
     prev2_position |-> last.prev_ball.position,
     outcome |-> r.outcome,
     predicted_ball_position |-> r.predicted_ball_position,
     goalie_time |-> r.goalie_time, enemy_time |-> r.enemy_time,
     blocked |-> r.blocked, target |-> r.target]

\* The elapsed time is now - last_update: it can be zero only in the first
\* iteration, every later one follows a sleep of 100 ms
ElapsedOk(delta_time) == delta_time.n > 0 \/ tick = 0

\* one iteration of the loop of main (main.rs)
Tick(new_position, delta_time, enemy) ==
    /\ engine = "main"
    /\ tick < MaxTicks
    /\ ElapsedOk(delta_time)
    /\ ball' = Ball_update(ball, new_position, delta_time)
    /\ \E r \in {IF in_target_box(ball')
                 THEN decide_action(goalie, ball', enemy, teammate_position,
                                    goal_position, delta_time)
                 ELSE no_action(goalie)} :
           /\ goalie' = r.position
           /\ last' = Record(r, new_position, delta_time, enemy)
    /\ tick' = tick + 1
    /\ UNCHANGED <<engine, path>>

\* one iteration of the loop of main (backup.rs)
BackupTick(new_position, delta_time, enemy) ==
    /\ engine = "backup"
    /\ tick < MaxTicks
    /\ ElapsedOk(delta_time)
    /\ ball' = Ball_update(ball, new_position, delta_time)
    /\ \E r \in {IF in_target_box(ball')
                 THEN backup_decide_action(goalie, ball', enemy, delta_time)
                 ELSE no_action(goalie)} :
           /\ goalie' = r.position
           /\ last' = Record(r, new_position, delta_time, enemy)
    /\ tick' = tick + 1
    /\ UNCHANGED <<engine, path>>

Next ==
    \/ \E p \in Observed, dt \in DeltaTimes, e \in Enemies : Tick(p, dt, e)
    \/ \E p \in Observed, dt \in DeltaTimes, e \in Enemies : BackupTick(p, dt, e)

Spec == Init /\ [][Next]_vars

\* ------------------------------------------------------------------------
\* The path functions on their own: bezier_path_blocked and RobotTrajectory
\* applied once to a start point, an end point and an obstacle
Starts == {Vec(I(0), I(0)), Vec(I(-5), I(10)), Vec(I(0), I(-20))}

Ends == {Vec(I(0), I(-20)), Vec(I(10), I(5)), Vec(I(-5), I(10))}

Obstacles ==
    {Vec(I(0), I(-10)), Vec(I(100), I(100)), Vec(I(0), I(1)), Vec(I(1), I(5)),
     Vec(I(0), I(-1)), Vec(R(-19, 4), R(17, 2)), Vec(R(1, 2), I(-4)),
     Vec(R(1, 2), I(-20)), Vec(R(1, 2), I(0))}

InitPath ==
    /\ engine = "main"
    /\ tick = 0
    /\ ball = Ball_new(InitialBallPosition)
    /\ goalie = InitialGoaliePosition
    /\ last = NoLast
    /\ path \in {[NoPath EXCEPT !.phase = "drawn", !.start = s, !.end = e,
                                !.obstacle = o] :
                     s \in Starts, e \in Ends, o \in Obstacles}

EvaluatePath ==
    /\ path.phase = "drawn"
    /\ LET trajectory == RobotTrajectory_new(path.start, path.end, goal_position)
       IN  path' = [path EXCEPT
                !.phase = "done",
                !.blocked = bezier_path_blocked(path.start, path.end,
                                                Enemy_new(path.obstacle, Origin)),
                !.quad = [i \in 1 .. 11 |->
                             bezier_point(path.start, path.end, Param(i - 1))],
                !.cubic = [i \in 1 .. 11 |->
                              compute_position(trajectory, Param(i - 1))],
                !.delta = compute_delta_vector(trajectory, R(1, 2))]
    /\ UNCHANGED <<engine, tick, ball, goalie, last>>

NextPath == EvaluatePath

SpecPath == InitPath /\ [][NextPath]_vars

\* ========================================================================
\* Properties
\* ------------------------------------------------------------------------
\* Vocabulary of the properties, stated without the operators of the model
\* wherever that is possible

\* squared Euclidean distance
DistSq(u, v) ==
    Add(Mul(Sub(u.x, v.x), Sub(u.x, v.x)), Mul(Sub(u.y, v.y), Sub(u.y, v.y)))

\* the point start + t * (end - start)
Lerp(start, end, t) == VAdd(start, VScale(t, VSub(end, start)))

\* |x| > 10 or |y| > 20
OutsideZone(p) == LT(I(10), FAbs(p.x)) \/ LT(I(20), FAbs(p.y))

RootEq(a, b) == RootLE(a, b) /\ RootLE(b, a)

\* goalie_time <= enemy_time * 1.2, as 5 * goalie_time <= 6 * enemy_time
WithinThreshold(goalie_time, enemy_time) ==
    RootLE(RootMul(RootOf(I(5)), goalie_time), RootMul(RootOf(I(6)), enemy_time))

\* the decision was evaluated in the last iteration
Evaluated == last.ticked /\ last.outcome # "Idle"

FourPositions ==
    {InitialGoaliePosition, Vec(I(0), I(0)), teammate_position, goal_position}

\* max(speed, 1e-6) for the speed whose square is sq
FlooredSpeed(sq) ==
    IF RootLE(EPSILON, Root(sq, 0)) THEN Root(sq, 0) ELSE EPSILON

\* C1: in an iteration in which the ball's current position has |x| > 10 or
\* |y| > 20 nothing is decided and the goalie's position is the one it had
\* before the iteration, whatever the opponent and the ball's derivatives are
ThmC1 ==
    (last.ticked /\ OutsideZone(ball.position))
        => (last.outcome = "Idle" /\ goalie = last.prev_goalie)

\* an iteration with the ball above y = 20, the goalie away from its initial
\* position, the ball moving and the goalie left where it was
WitC1 ==
    /\ last.ticked
    /\ LT(I(20), FAbs(ball.position.y))
    /\ last.prev_goalie # InitialGoaliePosition
    /\ ball.velocity # Origin
    /\ goalie = last.prev_goalie

\* C2: with the ball inside the zone the outcome is Intercepting exactly
\* when goalie_time <= enemy_time * 1.2 and SafeMode otherwise; at equality
\* the outcome is Intercepting
ThmC2 ==
    (last.ticked /\ ~OutsideZone(ball.position))
        => /\ last.outcome \in {"Intercepting", "SafeMode"}
           /\ last.outcome = "Intercepting"
                  <=> WithinThreshold(last.goalie_time, last.enemy_time)
           /\ RootEq(last.goalie_time,
                     RootMul(last.enemy_time, RootOf(R(6, 5))))
                  => last.outcome = "Intercepting"

\* the tie: goalie_time = enemy_time * 1.2, both positive and finite
WitC2 ==
    /\ Evaluated
    /\ RootFinite(last.goalie_time) /\ last.goalie_time.n > 0
    /\ RootEq(last.goalie_time, RootMul(last.enemy_time, RootOf(R(6, 5))))
    /\ last.outcome = "Intercepting"

\* C3: when the outcome is Intercepting (main.rs) the target, and the
\* goalie's new position, is the teammate point if the path from the goalie
\* to the goal is reported blocked and the goal point if it is reported
\* clear; from (0,0) an opponent at (0,-10) gives (-5,10) and one at
\* (100,100) gives (0,-20)
ThmC3 ==
    (engine = "main" /\ last.ticked /\ last.outcome = "Intercepting")
        => /\ last.target = IF last.blocked THEN Vec(I(-5), I(10))
                                            ELSE Vec(I(0), I(-20))
           /\ goalie = last.target
           /\ (last.prev_goalie = Vec(I(0), I(0))
                 /\ last.enemy.position = Vec(I(0), I(-10)))
                  => goalie = Vec(I(-5), I(10))
           /\ (last.prev_goalie = Vec(I(0), I(0))
                 /\ last.enemy.position = Vec(I(100), I(100)))
                  => goalie = Vec(I(0), I(-20))

\* the blocked example: goalie at (0,0), opponent at (0,-10), redirected
WitC3 ==
    /\ engine = "main" /\ last.ticked /\ last.outcome = "Intercepting"
    /\ last.prev_goalie = Vec(I(0), I(0))
    /\ last.enemy.position = Vec(I(0), I(-10))
    /\ last.blocked
    /\ goalie = Vec(I(-5), I(10))

\* C4: an update with an elapsed time <= 0 leaves the ball's state as it
\* was, and the ball's state never holds a non-finite value
CexC4 ==
    /\ (last.ticked /\ LE(last.delta_time, I(0))) => ball = last.prev_ball
    /\ BallFinite(ball)

\* C5: after update(P1, dt) with dt > 0 on (P0, V0, A0) the state is P1,
\* (P1-P0)/dt, (V1-V0)/dt, (A1-A0)/dt; after two updates with the same dt the
\* acceleration is (P2 - 2*P1 + P0)/dt^2
ThmC5 ==
    (last.ticked /\ LT(I(0), last.delta_time))
        => /\ ball.position = last.new_position
           /\ VScale(last.delta_time, ball.velocity)
                  = VSub(ball.position, last.prev_ball.position)
           /\ VFinite(last.prev_ball.velocity)
                  => VScale(last.delta_time, ball.acceleration)
                         = VSub(ball.velocity, last.prev_ball.velocity)
           /\ (VFinite(last.prev_ball.velocity)
                 /\ VFinite(last.prev_ball.acceleration))
                  => VScale(last.delta_time, ball.jerk)
                         = VSub(ball.acceleration, last.prev_ball.acceleration)
           /\ (tick >= 2 /\ last.prev_delta_time = last.delta_time)
                  => VScale(Mul(last.delta_time, last.delta_time), ball.acceleration)
                         = VAdd(VSub(ball.position,
                                     VScale(I(2), last.prev_ball.position)),
                                last.prev2_position)

\* two updates with dt = 2 and a non-zero second difference
WitC5 ==
    /\ last.ticked /\ tick >= 2
    /\ last.delta_time = I(2) /\ last.prev_delta_time = I(2)
    /\ BallFinite(last.prev_ball)
    /\ ball.acceleration # Origin
    /\ ball.jerk # Origin

\* C6: after an iteration whose outcome is SafeMode the goalie is at (0,0)
ThmC6 ==
    (last.ticked /\ last.outcome = "SafeMode") => goalie = Vec(I(0), I(0))

\* SafeMode reached with the goalie away from the origin
WitC6 ==
    /\ last.ticked /\ last.outcome = "SafeMode"
    /\ last.prev_goalie # Vec(I(0), I(0))
    /\ goalie = Vec(I(0), I(0))

\* C8: for a finite goalie position and forecast, both arrival times are
\* finite and non-negative and are the distance divided by the floored speed
\* (2.0 for the goalie, max(|velocity|, 1e-6) for the opponent)
ThmC8 ==
    (Evaluated /\ VFinite(last.predicted_ball_position) /\ VFinite(last.prev_goalie))
        => /\ RootFinite(last.goalie_time) /\ last.goalie_time.n >= 0
           /\ RootFinite(last.enemy_time) /\ last.enemy_time.n >= 0
           /\ RootEq(RootMul(last.goalie_time, FlooredSpeed(I(4))),
                     Root(DistSq(last.prev_goalie, last.predicted_ball_position), 0))
           /\ RootEq(RootMul(last.enemy_time,
                             FlooredSpeed(DistSq(last.enemy.velocity, Origin))),
                     Root(DistSq(last.enemy.position, last.predicted_ball_position), 0))

\* an opponent that stands still, away from the forecast position
WitC8 ==
    /\ Evaluated /\ VFinite(last.predicted_ball_position)
    /\ last.enemy.velocity = Origin
    /\ last.enemy.position # last.predicted_ball_position
    /\ RootFinite(last.enemy_time) /\ last.enemy_time.n > 0

\* C10: in main.rs the goalie is always at its initial position, at (0,0),
\* at the teammate point or at the goal point, and it moves only in an
\* iteration with the ball inside the zone
ThmC10 ==
    engine = "main"
        => /\ goalie \in FourPositions
           /\ (last.ticked /\ goalie # last.prev_goalie)
                  => ~OutsideZone(ball.position)

\* an interception whose forecast position is none of the four points
WitC10 ==
    /\ engine = "main" /\ last.ticked /\ last.outcome = "Intercepting"
    /\ VFinite(last.predicted_ball_position)
    /\ last.predicted_ball_position \notin FourPositions
    /\ goalie # last.prev_goalie
    /\ goalie # last.predicted_ball_position

\* the clearance test applied to a sequence of 11 sampled points
SamplesBlocked(points, obstacle) ==
    \E i \in 1 .. 11 : LT(DistSq(points[i], obstacle), I(1))

\* C7 as stated: the path is sampled at t = 0, 0.1, ..., 1.0 and is blocked
\* exactly when a sample is at distance <= 1.0 of the opponent
CexC7 ==
    path.phase = "done"
        => (path.blocked
              <=> \E i \in 0 .. 10 :
                      LE(DistSq(Lerp(path.start, path.end, R(i, 10)), path.obstacle),
                         I(1)))

\* C7 amended: the path is sampled at t = 0, 0.1, ..., 1.0 and is blocked
\* exactly when a sample is at distance < 1.0 of the opponent; a sample at
\* distance exactly 1.0 does not block
ThmC7 ==
    path.phase = "done"
        => (path.blocked
              <=> \E i \in 0 .. 10 :
                      LT(DistSq(Lerp(path.start, path.end, R(i, 10)), path.obstacle),
                         I(1)))

\* an obstacle on the segment, halfway between two samples and farther than
\* 1.0 from every sample, reported clear
WitC7 ==
    /\ path.phase = "done"
    /\ path.start # path.end
    /\ \E j \in 0 .. 9 :
           path.obstacle = Lerp(path.start, path.end, R(2 * j + 1, 20))
    /\ \A i \in 0 .. 10 :
           LT(I(1), DistSq(Lerp(path.start, path.end, R(i, 10)), path.obstacle))
    /\ ~path.blocked

\* C9: for the same start and end the cubic of RobotTrajectory and the curve
\* of the clearance check are both start + t * (end - start) at every
\* t = 0, 0.1, ..., 1.0, so they give the same verdict; the cubic starts at
\* the start point and ends at the end point
ThmC9 ==
    path.phase = "done"
        => /\ \A i \in 0 .. 10 :
                  /\ path.cubic[i + 1] = Lerp(path.start, path.end, R(i, 10))
                  /\ path.quad[i + 1] = path.cubic[i + 1]
           /\ path.cubic[1] = path.start
           /\ path.cubic[11] = path.end
           /\ SamplesBlocked(path.cubic, path.obstacle) <=> path.blocked

\* distinct end points and an obstacle that blocks both curves
WitC9 ==
    /\ path.phase = "done"
    /\ path.start # path.end
    /\ path.cubic[6] # path.start /\ path.cubic[6] # path.end
    /\ path.blocked
    /\ SamplesBlocked(path.cubic, path.obstacle)

====
